---- MODULE Spec2Model ----
(***************************************************************************)
(* Model of nw.epm.refapps.ext.prod.manage.localService.MockRequests       *)
(* (src/unnamed/part_000): the mock requests that simulate the function    *)
(* imports EditProduct, CopyProduct and ActivateProduct and the defaulting *)
(* of drafts created with "Add", on top of the entity sets held by the     *)
(* mock server.                                                            *)
(*                                                                         *)
(* JavaScript values are tagged so that values of different types can be   *)
(* compared: Str(s), Bool(b), Num(n), Obj(r) and Undef.  An entity is a    *)
(* function from Fields to values; a field that is absent and a field      *)
(* whose value is undefined are the same thing for every operation of the  *)
(* source (typeof, !x, jQuery.extend, JSON.stringify), so both are Undef.  *)
(*                                                                         *)
(* getEntitySetData may hand out the rows of the store or copies of them:  *)
(* the handlers write every change back with setEntitySetData, and the one *)
(* row they change in place without doing so (the draft stripped by        *)
(* _buildProductFromDraft) has been filtered out of ProductDrafts by then, *)
(* so both give the same store.                                            *)
(***************************************************************************)
EXTENDS Integers, Sequences, FiniteSets, TLC

VARIABLES
    oMockdata,     \* the mock server's entity sets: name -> sequence of rows
    iLastId,       \* this._iLastId
    bAttachAfter,  \* whether the mock server offers attachAfter (UI5 >= 1.30)
    aAfterHooks,   \* the handlers the constructor registered with attachAfter
    last,          \* the request handled last: input, store before it, response
    conv           \* the unit conversion applied last (specification SpecUnits)

vars == <<oMockdata, iLastId, bAttachAfter, aAfterHooks, last, conv>>

(***************************************************************************)
(* Bounds of the model.                                                    *)
(***************************************************************************)
\* Rows of ProductDrafts.
MaxDrafts == 2
\* Rows of Products.
MaxProducts == 2
\* Id allocations of one session.
MaxLastId == 2
\* Rows of a unit table in SpecUnits.
MaxUnitRows == 2

(***************************************************************************)
(* JavaScript values.                                                      *)
(***************************************************************************)
Str(s) == [str |-> s]
Bool(b) == [bool |-> b]
Num(n) == [num |-> n]
Obj(r) == [obj |-> r]
Undef == [undef |-> TRUE]
False == Bool(FALSE)

IsPrimitive(v) == DOMAIN v \in {{"str"}, {"bool"}, {"num"}, {"undef"}}

\* !!v
Truthy(v) ==
    IF DOMAIN v = {"str"} THEN v.str # ""
    ELSE IF DOMAIN v = {"bool"} THEN v.bool
    ELSE IF DOMAIN v = {"num"} THEN v.num # 0
    ELSE IF DOMAIN v = {"undef"} THEN FALSE
    ELSE TRUE

\* o[f]: reading a property of a primitive (false) or an absent property
\* yields undefined and does not throw.
Get(o, f) ==
    IF IsPrimitive(o) THEN Undef
    ELSE IF f \in DOMAIN o THEN o[f]
    ELSE Undef

\* "" + v
ToStr(v) ==
    IF DOMAIN v = {"str"} THEN v.str
    ELSE IF DOMAIN v = {"num"} THEN ToString(v.num)
    ELSE IF DOMAIN v = {"bool"} THEN (IF v.bool THEN "true" ELSE "false")
    ELSE IF DOMAIN v = {"undef"} THEN "undefined"
    ELSE "[object Object]"

Fields ==
    {"Id", "Name", "ProductId", "IsNewProduct", "IsDirty", "CreatedBy",
     "ExpiresAt", "Images", "__metadata",
     "SubCategoryId", "MainCategoryId", "SubCategoryName", "MainCategoryName",
     "WeightUnit", "DimensionUnit", "ImageUrl",
     "HasReviewOfCurrentUser", "RatingCount", "IsFavoriteOfCurrentUser",
     "StockQuantity", "AverageRating",
     "CurrencyCode", "QuantityUnit", "MeasureUnit"}

\* {}
EmptyObject == [f \in Fields |-> Undef]

\* delete o[f1]; delete o[f2]; ...
Delete(o, fs) == [f \in DOMAIN o |-> IF f \in fs THEN Undef ELSE o[f]]

\* jQuery.extend(target, src): copies the properties of src whose value is
\* not undefined; a src that is no object (false) has none.
jQueryExtend(target, src) ==
    IF IsPrimitive(src) THEN target
    ELSE [f \in DOMAIN target |->
            IF f \in DOMAIN src /\ src[f] # Undef THEN src[f] ELSE target[f]]

\* JSON.stringify({d: v}): the text is modelled by the value it encodes, the
\* envelope with the properties of v whose value is undefined left out.
JSONstringify(v) ==
    [d |-> IF IsPrimitive(v) THEN v
           ELSE [f \in {g \in DOMAIN v : v[g] # Undef} |-> v[f]]]

Min(S) == CHOOSE x \in S : \A y \in S : x <= y

RECURSIVE SeqFilter(_, _)
\* Array.prototype.filter, Keep(_) a set of rows to keep
SeqFilter(a, keep) ==
    IF a = <<>> THEN <<>>
    ELSE IF Head(a) \in keep THEN <<Head(a)>> \o SeqFilter(Tail(a), keep)
    ELSE SeqFilter(Tail(a), keep)

(***************************************************************************)
(* The mock server's store.                                                *)
(***************************************************************************)
getEntitySetData(data, sEntitySetName) == data[sEntitySetName]

setEntitySetData(data, sEntitySetName, aData) ==
    [data EXCEPT ![sEntitySetName] = aData]

getRootUri == "/srv/"

Products == oMockdata["Products"]
ProductDrafts == oMockdata["ProductDrafts"]

(***************************************************************************)
(* Entity store adapter (lines 247-342 of the source).                     *)
(***************************************************************************)
\* The key name used when the caller passes none.
NoKey == ""

\* jQuery.grep for the rows whose key equals sId; the first of them, or false.
_getFirstFoundEntity(data, sEntitySetName, sId, sKeyName) ==
    LET aEntities == getEntitySetData(data, sEntitySetName)
        key == IF sKeyName # "" THEN sKeyName ELSE "Id"
        found == {i \in 1..Len(aEntities) : Get(aEntities[i], key) = sId}
    IN  IF found # {} THEN aEntities[Min(found)] ELSE False

_getProduct(data, sProductId) ==
    _getFirstFoundEntity(data, "Products", sProductId, NoKey)

_getProductDraft(data, sDraftId) ==
    _getFirstFoundEntity(data, "ProductDrafts", sDraftId, NoKey)

_getMainCategory(data, sMainCategoryId) ==
    _getFirstFoundEntity(data, "MainCategories", sMainCategoryId, NoKey)

_getSubCategory(data, sSubCategoryId) ==
    _getFirstFoundEntity(data, "SubCategories", sSubCategoryId, NoKey)

_getDimensionText(data, sDimensionUnit) ==
    Get(_getFirstFoundEntity(data, "DimensionUnits", sDimensionUnit, "Unit"),
        "Shorttext")

_getDimensionUnit(data, sDimensionText) ==
    Get(_getFirstFoundEntity(data, "DimensionUnits", sDimensionText, "Shorttext"),
        "Unit")

_getWeightText(data, sWeightUnit) ==
    Get(_getFirstFoundEntity(data, "WeightUnits", sWeightUnit, "Unit"),
        "Shorttext")

\* A lookup by the wrong column.
_getWeightUnitByUnit(data, sWeightText) ==
    Get(_getFirstFoundEntity(data, "WeightUnits", sWeightText, "Unit"), "Unit")

_getWeightUnit(data, sWeightText) ==
    Get(_getFirstFoundEntity(data, "WeightUnits", sWeightText, "Shorttext"),
        "Unit")

\* The id and uri are built without the root URI.
_extendMetadataNoRoot(oEntity, sEntityTypeName, sEntitySetName) ==
    LET sUri == sEntitySetName \o "('" \o ToStr(Get(oEntity, "Id")) \o "')"
    IN  [oEntity EXCEPT !["__metadata"] =
            Obj([id |-> sUri,
                 type |-> "EPM_REF_APPS_PROD_MAN_SRV." \o sEntityTypeName,
                 uri |-> sUri])]

_extendMetadata(oEntity, sEntityTypeName, sEntitySetName) ==
    LET sUri == getRootUri \o sEntitySetName \o "('"
                    \o ToStr(Get(oEntity, "Id")) \o "')"
    IN  [oEntity EXCEPT !["__metadata"] =
            Obj([id |-> sUri,
                 type |-> "EPM_REF_APPS_PROD_MAN_SRV." \o sEntityTypeName,
                 uri |-> sUri])]

_createProduct(data, oProduct) ==
    LET aProducts == getEntitySetData(data, "Products")
    IN  setEntitySetData(data, "Products",
            Append(aProducts, _extendMetadata(oProduct, "Product", "Products")))

_createProductDraft(data, oDraft) ==
    LET aProductDrafts == getEntitySetData(data, "ProductDrafts")
        oWithImages ==
            [oDraft EXCEPT !["Images"] =
                Obj([__deferred |->
                    [uri |-> getRootUri \o "ProductDrafts('"
                                \o ToStr(Get(oDraft, "Id")) \o "')/Images"]])]
    IN  setEntitySetData(data, "ProductDrafts",
            Append(aProductDrafts,
                   _extendMetadata(oWithImages, "ProductDraft", "ProductDrafts")))

\* The update is merged into every row, whatever its id.
_updateEntityAll(data, sEntitySetName, sId, oUpdatedProperties) ==
    LET aEntities == getEntitySetData(data, sEntitySetName)
    IN  setEntitySetData(data, sEntitySetName,
            [i \in 1..Len(aEntities) |->
                jQueryExtend(aEntities[i], oUpdatedProperties)])

\* The row with the id is replaced by the update instead of merged with it.
_updateEntityReplace(data, sEntitySetName, sId, oUpdatedProperties) ==
    LET aEntities == getEntitySetData(data, sEntitySetName)
    IN  setEntitySetData(data, sEntitySetName,
            [i \in 1..Len(aEntities) |->
                IF Get(aEntities[i], "Id") = sId
                THEN oUpdatedProperties
                ELSE aEntities[i]])

_updateEntity(data, sEntitySetName, sId, oUpdatedProperties) ==
    LET aEntities == getEntitySetData(data, sEntitySetName)
        updateEntity(oEntity) ==
            IF Get(oEntity, "Id") = sId
            THEN jQueryExtend(oEntity, oUpdatedProperties)
            ELSE oEntity
    IN  setEntitySetData(data, sEntitySetName,
            [i \in 1..Len(aEntities) |-> updateEntity(aEntities[i])])

_updateProduct(data, sId, oUpdatedProperties) ==
    _updateEntity(data, "Products", sId, oUpdatedProperties)

_updateProductDraft(data, sDraftId, oUpdatedProperties) ==
    _updateEntity(data, "ProductDrafts", sDraftId, oUpdatedProperties)

\* Only the first row with the id is removed.
_deleteProductDraftFirstOnly(data, sDraftId) ==
    LET aProductDrafts == getEntitySetData(data, "ProductDrafts")
        hits == {j \in 1..Len(aProductDrafts) :
                    Get(aProductDrafts[j], "Id") = sDraftId}
    IN  IF hits = {} THEN data
        ELSE setEntitySetData(data, "ProductDrafts",
                SubSeq(aProductDrafts, 1, Min(hits) - 1)
                    \o SubSeq(aProductDrafts, Min(hits) + 1,
                              Len(aProductDrafts)))

\* The filter keeps the rows with the id instead of the others.
_deleteProductDraftInverted(data, sDraftId) ==
    LET aProductDrafts == getEntitySetData(data, "ProductDrafts")
        kept == {aProductDrafts[i] : i \in
                    {j \in 1..Len(aProductDrafts) :
                        Get(aProductDrafts[j], "Id") = sDraftId}}
    IN  setEntitySetData(data, "ProductDrafts", SeqFilter(aProductDrafts, kept))

_deleteProductDraft(data, sDraftId) ==
    LET aProductDrafts == getEntitySetData(data, "ProductDrafts")
        kept == {aProductDrafts[i] : i \in
                    {j \in 1..Len(aProductDrafts) :
                        Get(aProductDrafts[j], "Id") # sDraftId}}
    IN  setEntitySetData(data, "ProductDrafts", SeqFilter(aProductDrafts, kept))

(***************************************************************************)
(* The constructor (lines 28-43).                                          *)
(***************************************************************************)
_oNewDraftDefaultValues ==
    [f \in {"CurrencyCode", "DimensionUnit", "IsDirty", "IsNewProduct",
            "QuantityUnit", "MeasureUnit", "WeightUnit"} |->
        CASE f = "CurrencyCode" -> Str("EUR")
          [] f = "DimensionUnit" -> Str("MTR")
          [] f = "IsDirty" -> Bool(FALSE)
          [] f = "IsNewProduct" -> Bool(TRUE)
          [] f = "QuantityUnit" -> Str("EA")
          [] f = "MeasureUnit" -> Str("each")
          [] f = "WeightUnit" -> Str("KGM")]

\* What the constructor registers with the mock server.
constructor(bHasAttachAfter) ==
    [iLastId |-> 0,
     aAfterHooks |->
        IF bHasAttachAfter
        THEN <<[method |-> "POST", handler |-> "onAfterDraftCreated",
                entitySet |-> "ProductDrafts"]>>
        ELSE <<>>]

(***************************************************************************)
(* Draft <-> product transforms (lines 145-237).                           *)
(***************************************************************************)
\* The counter is read and not advanced.
_getNewIdStuck(lastId) == lastId

_getNewId(lastId) == lastId + 1

\* What a handler leaves behind: the store, the id counter, the response
\* written with respondJSON (status 0 and no body: none) and whether it threw.
Outcome(data, lastId, status, body, threw) ==
    [data |-> data, iLastId |-> lastId, status |-> status, body |-> body,
     threw |-> threw]

\* The rating and stock fields are zeroed whether the product is new or not.
_buildProductFromDraftAlwaysNew(data, oDraft) ==
    LET bIsNewProduct ==
            IF Get(oDraft, "IsNewProduct") = Undef
            THEN Bool(TRUE)
            ELSE Get(oDraft, "IsNewProduct")
        dataDeleted == _deleteProductDraft(data, Get(oDraft, "Id"))
    IN  IF IsPrimitive(oDraft)
        THEN [threw |-> TRUE, oProduct |-> oDraft, data |-> dataDeleted]
        ELSE
        LET oStripped ==
                Delete(oDraft,
                    {"__metadata", "SubCategoryName", "MainCategoryName",
                     "Images", "IsNewProduct", "ExpiresAt", "ProductId",
                     "IsDirty"})
            oNamed1 ==
                IF ~Truthy(oStripped["SubCategoryName"])
                THEN [oStripped EXCEPT !["SubCategoryName"] =
                        Get(_getSubCategory(dataDeleted,
                                oStripped["SubCategoryId"]), "Name")]
                ELSE oStripped
            oNamed2 ==
                IF ~Truthy(oNamed1["MainCategoryName"])
                THEN [oNamed1 EXCEPT !["MainCategoryName"] =
                        Get(_getMainCategory(dataDeleted,
                                oNamed1["MainCategoryId"]), "Name")]
                ELSE oNamed1
            \* oDraft and oProduct are the same object: line 179 reads the
            \* DimensionUnit of the draft, which line 178 has not changed.
            oUnits ==
                [oNamed2 EXCEPT
                    !["WeightUnit"] =
                        _getWeightText(dataDeleted, oNamed2["WeightUnit"]),
                    !["DimensionUnit"] =
                        _getDimensionText(dataDeleted, oNamed2["DimensionUnit"])]
            oNew ==
                [oUnits EXCEPT
                    !["RatingCount"] = Num(0),
                    !["AverageRating"] = Num(0),
                    !["StockQuantity"] = Num(0),
                    !["ImageUrl"] =
                        IF ~Truthy(oUnits["ImageUrl"]) THEN Str("") ELSE @]
        IN  [threw |-> FALSE,
             oProduct |-> oNew,
             data |-> dataDeleted]

\* The product of a draft, and the store with the draft deleted.  A draft that
\* is no object (the lookup found nothing) passes the deletes, which do
\* nothing on a primitive, and throws at the first assignment of a property
\* (strict mode, line 171), after _deleteProductDraft(undefined) has run.
_buildProductFromDraft(data, oDraft) ==
    LET bIsNewProduct ==
            IF Get(oDraft, "IsNewProduct") = Undef
            THEN Bool(TRUE)
            ELSE Get(oDraft, "IsNewProduct")
        dataDeleted == _deleteProductDraft(data, Get(oDraft, "Id"))
    IN  IF IsPrimitive(oDraft)
        THEN [threw |-> TRUE, oProduct |-> oDraft, data |-> dataDeleted]
        ELSE
        LET oStripped ==
                Delete(oDraft,
                    {"__metadata", "SubCategoryName", "MainCategoryName",
                     "Images", "IsNewProduct", "ExpiresAt", "ProductId",
                     "IsDirty"})
            oNamed1 ==
                IF ~Truthy(oStripped["SubCategoryName"])
                THEN [oStripped EXCEPT !["SubCategoryName"] =
                        Get(_getSubCategory(dataDeleted,
                                oStripped["SubCategoryId"]), "Name")]
                ELSE oStripped
            oNamed2 ==
                IF ~Truthy(oNamed1["MainCategoryName"])
                THEN [oNamed1 EXCEPT !["MainCategoryName"] =
                        Get(_getMainCategory(dataDeleted,
                                oNamed1["MainCategoryId"]), "Name")]
                ELSE oNamed1
            \* oDraft and oProduct are the same object: line 179 reads the
            \* DimensionUnit of the draft, which line 178 has not changed.
            oUnits ==
                [oNamed2 EXCEPT
                    !["WeightUnit"] =
                        _getWeightText(dataDeleted, oNamed2["WeightUnit"]),
                    !["DimensionUnit"] =
                        _getDimensionText(dataDeleted, oNamed2["DimensionUnit"])]
            oNew ==
                [oUnits EXCEPT
                    !["RatingCount"] = Num(0),
                    !["AverageRating"] = Num(0),
                    !["StockQuantity"] = Num(0),
                    !["ImageUrl"] =
                        IF ~Truthy(oUnits["ImageUrl"]) THEN Str("") ELSE @]
        IN  [threw |-> FALSE,
             oProduct |-> IF Truthy(bIsNewProduct) THEN oNew ELSE oUnits,
             data |-> dataDeleted]

\* The draft is the product row itself instead of a copy of it: the deletes
\* strip the row in the store.
_createDraftAliased(data, lastId, sProductId, bNewProduct) ==
    LET oProduct == _getProduct(data, Str(sProductId))
        aProducts == getEntitySetData(data, "Products")
        stripped ==
            [i \in 1..Len(aProducts) |->
                IF aProducts[i] = oProduct
                THEN Delete(aProducts[i],
                        {"HasReviewOfCurrentUser", "RatingCount",
                         "IsFavoriteOfCurrentUser", "StockQuantity",
                         "AverageRating", "__metadata"})
                ELSE aProducts[i]]
        sId == IF bNewProduct
               THEN Str("EPM-" \o ToString(_getNewId(lastId)))
               ELSE Str(sProductId)
        oDraft ==
            [Delete(jQueryExtend(EmptyObject, oProduct),
                    {"HasReviewOfCurrentUser", "RatingCount",
                     "IsFavoriteOfCurrentUser", "StockQuantity",
                     "AverageRating", "__metadata"})
                EXCEPT !["CreatedBy"] = Str("Test User"),
                       !["IsNewProduct"] = Bool(bNewProduct),
                       !["IsDirty"] = Bool(FALSE),
                       !["Id"] = sId,
                       !["ProductId"] = sId]
        dataCreated ==
            _createProductDraft(setEntitySetData(data, "Products", stripped),
                                oDraft)
    IN  Outcome(dataCreated,
                IF bNewProduct THEN _getNewId(lastId) ELSE lastId,
                200, JSONstringify(_getProductDraft(dataCreated, sId)), FALSE)

\* Every draft gets a generated id, the edited one too.
_createDraftAlwaysNewId(data, lastId, sProductId, bNewProduct) ==
    LET oProduct == _getProduct(data, Str(sProductId))
        sId == Str("EPM-" \o ToString(_getNewId(lastId)))
        oDraft ==
            [Delete(jQueryExtend(EmptyObject, oProduct),
                    {"HasReviewOfCurrentUser", "RatingCount",
                     "IsFavoriteOfCurrentUser", "StockQuantity",
                     "AverageRating", "__metadata"})
                EXCEPT !["CreatedBy"] = Str("Test User"),
                       !["IsNewProduct"] = Bool(bNewProduct),
                       !["IsDirty"] = Bool(FALSE),
                       !["Id"] = sId,
                       !["ProductId"] = sId]
        dataCreated == _createProductDraft(data, oDraft)
    IN  Outcome(dataCreated, _getNewId(lastId),
                200, JSONstringify(_getProductDraft(dataCreated, sId)), FALSE)

\* The draft of a product.  A product that is no object (the lookup found
\* nothing) is only read: jQuery.extend copies nothing from it and its
\* WeightUnit and DimensionUnit read as undefined, so nothing throws.
_createDraft(data, lastId, sProductId, bNewProduct) ==
    LET oProduct == _getProduct(data, Str(sProductId))
        oCopied == jQueryExtend(EmptyObject, oProduct)
        oStripped ==
            Delete(oCopied,
                {"HasReviewOfCurrentUser", "RatingCount",
                 "IsFavoriteOfCurrentUser", "StockQuantity", "AverageRating",
                 "__metadata"})
        newId == IF bNewProduct THEN _getNewId(lastId) ELSE lastId
        sId == IF bNewProduct
               THEN Str("EPM-" \o ToString(newId))
               ELSE Str(sProductId)
        oDraft ==
            [oStripped EXCEPT
                !["CreatedBy"] = Str("Test User"),
                !["IsNewProduct"] = Bool(bNewProduct),
                !["IsDirty"] = Bool(FALSE),
                !["Id"] = sId,
                !["ProductId"] = sId,
                !["WeightUnit"] =
                    _getWeightUnit(data, Get(oProduct, "WeightUnit")),
                !["DimensionUnit"] =
                    _getDimensionUnit(data, Get(oProduct, "DimensionUnit"))]
        dataCreated == _createProductDraft(data, oDraft)
    IN  Outcome(dataCreated, newId, 200,
                JSONstringify(_getProductDraft(dataCreated, sId)), FALSE)

(***************************************************************************)
(* The mock requests (lines 45-143).                                       *)
(***************************************************************************)
\* decodeURIComponent on the identifiers the model sends: "%2D" is "-".
decodeURIComponent(s) ==
    CASE s = "HT%2D1000" -> "HT-1000"
      [] s = "EPM%2D1" -> "EPM-1"
      [] s = "EPM%2D2" -> "EPM-2"
      [] s = "D%2D1" -> "D-1"
      [] OTHER -> s

\* JSONModel.setJSON and getData: the value a JSON text encodes.  Properties
\* the text leaves out read as undefined (Get).
_textToJsonObject(sObject) == sObject

\* The generic POST on ProductDrafts of the mock server itself: the posted
\* entity becomes the last row of the entity set.
HostCreateDraft(data, oEntity) ==
    setEntitySetData(data, "ProductDrafts",
        Append(getEntitySetData(data, "ProductDrafts"), oEntity))

\* The defaults give way to the values the draft carries.
onAfterDraftCreatedKeep(oEntity) ==
    IF ~Truthy(Get(oEntity, "ProductId"))
    THEN jQueryExtend(jQueryExtend(EmptyObject, _oNewDraftDefaultValues), oEntity)
    ELSE oEntity

\* The hook attached after POST on ProductDrafts: changes the created entity.
onAfterDraftCreated(oEntity) ==
    IF ~Truthy(Get(oEntity, "ProductId"))
    THEN jQueryExtend(oEntity, _oNewDraftDefaultValues)
    ELSE oEntity

\* The response of the rule _mockAddProduct, run on the mock server's response
\* to the POST.
_mockAddProduct_response(data, responseText) ==
    LET oDraft == _textToJsonObject(responseText).d
    IN  IF ~Truthy(Get(oDraft, "ProductId"))
        THEN _updateProductDraft(data, Get(oDraft, "Id"), _oNewDraftDefaultValues)
        ELSE data

_mockEditProduct_response(data, lastId, sProductId) ==
    _createDraft(data, lastId, decodeURIComponent(sProductId), FALSE)

_mockCopyProduct_response(data, lastId, sProductId) ==
    _createDraft(data, lastId, decodeURIComponent(sProductId), TRUE)

_mockActivateProduct_response(data, lastId, sDraftIdInUrl) ==
    LET oProdDraft == _getProductDraft(data, Str(decodeURIComponent(sDraftIdInUrl)))
        bIsNewProduct == Get(oProdDraft, "IsNewProduct")
        built == _buildProductFromDraft(data, oProdDraft)
        oProduct == built.oProduct
        dataDone ==
            IF Truthy(bIsNewProduct) \/ bIsNewProduct = Undef
            THEN _createProduct(built.data, oProduct)
            ELSE _updateProduct(built.data, Get(oProduct, "Id"), oProduct)
    IN  IF built.threw
        THEN Outcome(built.data, lastId, 0, Undef, TRUE)
        ELSE Outcome(dataDone, lastId, 200,
                     JSONstringify(_getProduct(dataDone, Get(oProduct, "Id"))),
                     FALSE)

\* The rule for ProductDrafts is left out also when there is no hook.
getRequestsWithoutAdd(bHasAttachAfter) ==
    <<"ActivateProduct", "EditProduct", "CopyProduct">>

\* The rules handed to the mock server, in order.
getRequests(bHasAttachAfter) ==
    IF bHasAttachAfter
    THEN <<"ActivateProduct", "EditProduct", "CopyProduct">>
    ELSE <<"ActivateProduct", "ProductDrafts", "EditProduct", "CopyProduct">>

(***************************************************************************)
(* Initial content of the store and the requests the client sends.         *)
(***************************************************************************)
GenericDraftIds == {"D-1"}
\* Identifiers as they arrive in the URL, percent-encoded.
UrlProductIds == {"HT%2D1000", "EPM%2D1"}
UrlDraftIds == UrlProductIds \cup {"D%2D1"}

\* A row of Products as the mock data holds it.
InitialProduct(sId) ==
    _extendMetadata(
        [EmptyObject EXCEPT
            !["Id"] = Str(sId),
            !["Name"] = Str("Notebook " \o sId),
            !["SubCategoryId"] = Str("S1"),
            !["MainCategoryId"] = Str("M1"),
            !["SubCategoryName"] = Str("Snacks"),
            !["MainCategoryName"] = Str("Food"),
            !["WeightUnit"] = Str("kg"),
            !["DimensionUnit"] = Str("m"),
            !["ImageUrl"] = Str("/img/" \o sId),
            !["HasReviewOfCurrentUser"] = Bool(TRUE),
            !["RatingCount"] = Num(5),
            !["IsFavoriteOfCurrentUser"] = Bool(TRUE),
            !["StockQuantity"] = Num(7),
            !["AverageRating"] = Num(4),
            !["CurrencyCode"] = Str("USD"),
            !["QuantityUnit"] = Str("EA"),
            !["MeasureUnit"] = Str("each")],
        "Product", "Products")

\* The contents Products starts with: rows with pairwise distinct ids.
InitialProducts ==
    {<<InitialProduct("EPM-1")>>,
     <<InitialProduct("HT-1000"), InitialProduct("EPM-1")>>}

UnitRow(sUnit, sText) == [Unit |-> Str(sUnit), Shorttext |-> Str(sText)]

InitialData(aProducts, aWeightUnits, aDimensionUnits) ==
    [Products |-> aProducts,
     ProductDrafts |-> <<>>,
     MainCategories |-> <<[Id |-> Str("M1"), Name |-> Str("Food")]>>,
     SubCategories |-> <<[Id |-> Str("S1"), Name |-> Str("Snacks")]>>,
     WeightUnits |-> aWeightUnits,
     DimensionUnits |-> aDimensionUnits]

\* The entities a client posts to ProductDrafts.
PostedDraft(sId, vProductId, vIsNew, vCurrency) ==
    [EmptyObject EXCEPT
        !["Id"] = Str(sId),
        !["Name"] = Str("New product"),
        !["ProductId"] = vProductId,
        !["IsNewProduct"] = vIsNew,
        !["CurrencyCode"] = vCurrency,
        !["SubCategoryId"] = Str("S1"),
        !["MainCategoryId"] = Str("M1")]

PostedDrafts ==
    {PostedDraft(sId, Undef, Bool(FALSE), Str("USD")) : sId \in GenericDraftIds}
    \cup {PostedDraft(sId, Str(""), Undef, Undef) : sId \in GenericDraftIds}
    \cup {PostedDraft(sId, Str("HT-1000"), Undef, Str("USD")) :
            sId \in GenericDraftIds}

NoRequest ==
    [op |-> "none", arg |-> "", pre |-> Undef, preLastId |-> 0,
     status |-> 0, body |-> Undef, threw |-> FALSE, alert |-> FALSE,
     oEntity |-> Undef]

NoConv == [table |-> "none", unit |-> Undef, text |-> Undef, back |-> Undef]

TypicalWeightUnits == <<UnitRow("KGM", "kg"), UnitRow("GRM", "g")>>
TypicalDimensionUnits == <<UnitRow("MTR", "m"), UnitRow("CMT", "cm")>>

Init ==
    /\ bAttachAfter \in BOOLEAN
    /\ iLastId = constructor(bAttachAfter).iLastId
    /\ aAfterHooks = constructor(bAttachAfter).aAfterHooks
    /\ \E aProducts \in InitialProducts :
          oMockdata = InitialData(aProducts, TypicalWeightUnits,
                                  TypicalDimensionUnits)
    /\ last = NoRequest
    /\ conv = NoConv

(***************************************************************************)
(* One action per request.                                                 *)
(***************************************************************************)
Handled(op, arg, out, bAlert, oEntity) ==
    /\ oMockdata' = out.data
    /\ iLastId' = out.iLastId
    /\ last' = [op |-> op, arg |-> arg, pre |-> oMockdata,
                preLastId |-> iLastId, status |-> out.status, body |-> out.body,
                threw |-> out.threw, alert |-> bAlert, oEntity |-> oEntity]
    /\ UNCHANGED <<bAttachAfter, aAfterHooks, conv>>

\* POST ProductDrafts: the mock server creates the draft, then the hook
\* (attachAfter offered) or the rule _mockAddProduct (not offered) runs.
\* The mock server is taken to create a draft only under a key that no other
\* draft has.
AddProduct ==
    \E oEntity \in PostedDrafts :
        /\ Len(ProductDrafts) < MaxDrafts
        /\ \A i \in 1..Len(ProductDrafts) : ProductDrafts[i]["Id"] # oEntity["Id"]
        /\ LET dataHook == HostCreateDraft(oMockdata, onAfterDraftCreated(oEntity))
               dataHost == HostCreateDraft(oMockdata, oEntity)
               dataRule == _mockAddProduct_response(dataHost, JSONstringify(oEntity))
           IN  Handled("Add", oEntity["Id"].str,
                       Outcome(IF aAfterHooks # <<>> THEN dataHook
                               ELSE IF "ProductDrafts" \in
                                        {getRequests(bAttachAfter)[i] :
                                            i \in DOMAIN getRequests(bAttachAfter)}
                                    THEN dataRule
                                    ELSE dataHost,
                               iLastId, 0, Undef, FALSE),
                       FALSE, oEntity)

EditProduct ==
    \E sProductId \in UrlProductIds :
        /\ Len(ProductDrafts) < MaxDrafts
        /\ Handled("Edit", sProductId,
                   _mockEditProduct_response(oMockdata, iLastId, sProductId),
                   TRUE, Undef)

CopyProduct ==
    \E sProductId \in UrlProductIds :
        /\ Len(ProductDrafts) < MaxDrafts
        /\ iLastId < MaxLastId
        /\ Handled("Copy", sProductId,
                   _mockCopyProduct_response(oMockdata, iLastId, sProductId),
                   TRUE, Undef)

ActivateProduct ==
    \E sDraftId \in UrlDraftIds :
        LET out == _mockActivateProduct_response(oMockdata, iLastId, sDraftId)
        IN  /\ Len(out.data["Products"]) <= MaxProducts
            /\ Handled("Activate", sDraftId, out, FALSE, Undef)

Next == AddProduct \/ EditProduct \/ CopyProduct \/ ActivateProduct

Spec == Init /\ [][Next]_vars

(***************************************************************************)
(* The unit conversions on their own: every content of the two unit tables *)
(* up to MaxUnitRows rows, and one conversion there and back per step.     *)
(***************************************************************************)
UnitRows == {UnitRow(u, t) : u \in {"KGM", "GRM"}, t \in {"kg", "g"}}

UnitTables ==
    UNION {[1..n -> UnitRows] : n \in 0..MaxUnitRows}

InitUnits ==
    /\ bAttachAfter \in BOOLEAN
    /\ iLastId = constructor(bAttachAfter).iLastId
    /\ aAfterHooks = constructor(bAttachAfter).aAfterHooks
    /\ \E aWeightUnits \in UnitTables, aDimensionUnits \in UnitTables :
          oMockdata = InitialData(<<>>, aWeightUnits, aDimensionUnits)
    /\ last = NoRequest
    /\ conv = NoConv

\* unit -> text -> unit for one row of WeightUnits
ConvertWeight ==
    \E i \in 1..Len(oMockdata["WeightUnits"]) :
        LET sUnit == oMockdata["WeightUnits"][i]["Unit"]
            sText == _getWeightText(oMockdata, sUnit)
        IN  /\ conv' = [table |-> "WeightUnits", unit |-> sUnit, text |-> sText,
                        back |-> _getWeightUnit(oMockdata, sText)]
            /\ UNCHANGED <<oMockdata, iLastId, bAttachAfter, aAfterHooks, last>>

\* unit -> text -> unit for one row of DimensionUnits
ConvertDimension ==
    \E i \in 1..Len(oMockdata["DimensionUnits"]) :
        LET sUnit == oMockdata["DimensionUnits"][i]["Unit"]
            sText == _getDimensionText(oMockdata, sUnit)
        IN  /\ conv' = [table |-> "DimensionUnits", unit |-> sUnit,
                        text |-> sText,
                        back |-> _getDimensionUnit(oMockdata, sText)]
            /\ UNCHANGED <<oMockdata, iLastId, bAttachAfter, aAfterHooks, last>>

NextUnits == ConvertWeight \/ ConvertDimension

SpecUnits == InitUnits /\ [][NextUnits]_vars

(***************************************************************************)
(* Vocabulary of the properties.                                           *)
(***************************************************************************)
PreProducts == last.pre["Products"]
PreDrafts == last.pre["ProductDrafts"]

\* The identifier of the request handled last, as the handler uses it.
LastId == Str(decodeURIComponent(last.arg))

IdsOf(aEntities) == {Get(aEntities[i], "Id") : i \in 1..Len(aEntities)}

ProductOnlyFields ==
    {"HasReviewOfCurrentUser", "RatingCount", "IsFavoriteOfCurrentUser",
     "StockQuantity", "AverageRating"}

\* aAfter is aBefore with one more row at its end.
AppendedOne(aBefore, aAfter) ==
    /\ Len(aAfter) = Len(aBefore) + 1
    /\ SubSeq(aAfter, 1, Len(aBefore)) = aBefore

LastRow(aEntities) == aEntities[Len(aEntities)]

\* The lookup of the request handled last found no row.
LookupMissed ==
    \/ /\ last.op \in {"Edit", "Copy"}
       /\ _getProduct(last.pre, LastId) = False
    \/ /\ last.op = "Activate"
       /\ _getProductDraft(last.pre, LastId) = False

(***************************************************************************)
(* Activation: C1, C2.                                                     *)
(***************************************************************************)
\* The rows of aProducts with the id merged with oProduct, the others as
\* they are: an update in place.
UpdatedInPlace(aProducts, sId, oProduct) ==
    [j \in 1..Len(aProducts) |->
        IF Get(aProducts[j], "Id") = sId
        THEN jQueryExtend(aProducts[j], oProduct)
        ELSE aProducts[j]]

\* C1: for every draft row D whose IsNewProduct is true or undefined,
\* ActivateProduct for D.Id appends exactly one row to Products, the rows
\* already there keep their places and values, the appended row has the Id
\* of D, and no draft with that Id is left.
C1_ActivateNewAppendsOneProduct ==
    last.op = "Activate" =>
        \A i \in 1..Len(PreDrafts) :
            LET D == PreDrafts[i]
            IN  (/\ D["Id"] = LastId
                 /\ D["IsNewProduct"] \in {Bool(TRUE), Undef})
                => /\ AppendedOne(PreProducts, Products)
                   /\ LastRow(Products)["Id"] = D["Id"]
                   /\ D["Id"] \notin IdsOf(ProductDrafts)

\* C2: for every draft row D whose IsNewProduct is false, ActivateProduct for
\* D.Id merges the product built from D into the Products rows with that Id,
\* in place, leaves length and order of Products as they were, and no draft
\* with that Id is left.
C2_ActivateExistingUpdatesInPlace ==
    last.op = "Activate" =>
        \A i \in 1..Len(PreDrafts) :
            LET D == PreDrafts[i]
            IN  (/\ D["Id"] = LastId
                 /\ D["IsNewProduct"] = Bool(FALSE))
                => /\ Products =
                        UpdatedInPlace(PreProducts, D["Id"],
                            _buildProductFromDraft(last.pre, D).oProduct)
                   /\ D["Id"] \notin IdsOf(ProductDrafts)

(***************************************************************************)
(* Identifiers of drafts: C3, C4, C8.                                      *)
(***************************************************************************)
\* C3: the Id that CopyProduct gives the draft it creates is the Id of no
\* row that ProductDrafts or Products held before.
C3_CopyAllocatesUnusedId ==
    last.op = "Copy" =>
        LastRow(ProductDrafts)["Id"] \notin IdsOf(PreDrafts) \cup IdsOf(PreProducts)

\* C4: ProductDrafts holds at most one row per Id.
C4_OneDraftPerId ==
    \A i, j \in 1..Len(ProductDrafts) :
        ProductDrafts[i]["Id"] = ProductDrafts[j]["Id"] => i = j

\* C8: the draft that EditProduct appends for product id p has Id = p,
\* ProductId = p, IsNewProduct = false and IsDirty = false, and the id
\* counter stays where it was.
C8_EditReusesProductId ==
    last.op = "Edit" =>
        /\ last.status = 200
        /\ AppendedOne(PreDrafts, ProductDrafts)
        /\ LastRow(ProductDrafts)["Id"] = LastId
        /\ LastRow(ProductDrafts)["ProductId"] = LastId
        /\ LastRow(ProductDrafts)["IsNewProduct"] = Bool(FALSE)
        /\ LastRow(ProductDrafts)["IsDirty"] = Bool(FALSE)
        /\ iLastId = last.preLastId

\* An edit of a product that exists has been handled.
C8_Witness ==
    /\ last.op = "Edit"
    /\ LastId \in IdsOf(PreProducts)
    /\ LastRow(ProductDrafts)["Id"] = Str("HT-1000")
    /\ LastRow(ProductDrafts)["Name"] = Str("Notebook HT-1000")

(***************************************************************************)
(* Round trip product -> draft -> product: C5.                             *)
(***************************************************************************)
\* C5: for every row P of Products, EditProduct for P.Id followed at once by
\* ActivateProduct for the same id leaves P's HasReviewOfCurrentUser,
\* RatingCount, IsFavoriteOfCurrentUser, StockQuantity and AverageRating as
\* they were; when the draft activated is the one the edit created, Products
\* keeps its number of rows as well.
C5_EditActivateKeepsProductOnlyFields ==
    \A i \in 1..Len(Products), sUrlId \in UrlProductIds :
        Products[i]["Id"] = Str(decodeURIComponent(sUrlId)) =>
            LET edited == _mockEditProduct_response(oMockdata, iLastId, sUrlId)
                activated ==
                    _mockActivateProduct_response(edited.data, edited.iLastId,
                                                  sUrlId)
                aAfter == activated.data["Products"]
                bOwnDraft ==
                    _getProductDraft(edited.data, Products[i]["Id"])
                        = LastRow(edited.data["ProductDrafts"])
            IN  /\ edited.status = 200
                /\ activated.status = 200
                /\ \A f \in ProductOnlyFields : aAfter[i][f] = Products[i][f]
                /\ bOwnDraft => Len(aAfter) = Len(Products)

\* The draft that EditProduct made of a product has been activated, and the
\* product still has the rating and stock it started with.
C5_Witness ==
    /\ last.op = "Activate"
    /\ last.status = 200
    /\ Len(PreDrafts) = 1
    /\ PreDrafts[1]["Id"] = LastId
    /\ PreDrafts[1]["IsNewProduct"] = Bool(FALSE)
    /\ PreDrafts[1]["CreatedBy"] = Str("Test User")
    /\ \A f \in ProductOnlyFields : PreDrafts[1][f] = Undef
    /\ \E i \in 1..Len(Products) :
          /\ Products[i]["Id"] = LastId
          /\ Products[i]["RatingCount"] = Num(5)
          /\ Products[i]["StockQuantity"] = Num(7)
          /\ Products[i]["HasReviewOfCurrentUser"] = Bool(TRUE)

(***************************************************************************)
(* Defaults of a draft created with "Add": C6.                             *)
(***************************************************************************)
\* C6: after POST ProductDrafts and its finalize step (hook or rule), a
\* draft posted without ProductId is the last row of ProductDrafts with
\* every field of the default table at its default value and its other
\* fields as posted; a draft posted with a ProductId is stored as posted.
C6_AddMergesDefaults ==
    last.op = "Add" =>
        /\ AppendedOne(PreDrafts, ProductDrafts)
        /\ IF ~Truthy(last.oEntity["ProductId"])
           THEN \A f \in Fields :
                    LastRow(ProductDrafts)[f] =
                        IF f \in DOMAIN _oNewDraftDefaultValues
                        THEN _oNewDraftDefaultValues[f]
                        ELSE last.oEntity[f]
           ELSE LastRow(ProductDrafts) = last.oEntity

\* A draft posted without ProductId that carried other values than the
\* defaults has been finalized.
C6_Witness ==
    /\ last.op = "Add"
    /\ last.oEntity["ProductId"] = Undef
    /\ last.oEntity["CurrencyCode"] = Str("USD")
    /\ last.oEntity["IsNewProduct"] = Bool(FALSE)
    /\ LastRow(ProductDrafts)["CurrencyCode"] = Str("EUR")

(***************************************************************************)
(* Unit conversions: C7 (specification SpecUnits).                         *)
(***************************************************************************)
\* No two rows of the table with different Units have the same Shorttext.
ShorttextDeterminesUnit(aUnits) ==
    \A i, j \in 1..Len(aUnits) :
        aUnits[i]["Shorttext"] = aUnits[j]["Shorttext"]
            => aUnits[i]["Unit"] = aUnits[j]["Unit"]

\* C7 as claimed: for every row of WeightUnits and of DimensionUnits, and
\* every content of the tables, unit -> text -> unit gives the Unit of the
\* row back.
C7_UnitTextUnitAnyTable ==
    conv.table # "none" => conv.back = conv.unit

\* C7 as amended: unit -> text -> unit gives the Unit of the row back in
\* every table in which no two rows with different Units share a Shorttext.
C7_UnitTextUnit ==
    (conv.table # "none" /\ ShorttextDeterminesUnit(oMockdata[conv.table]))
        => conv.back = conv.unit

\* A unit that is not the first row of its table has been converted to its
\* text, which differs from it, and back.
C7_Witness ==
    /\ conv.table = "WeightUnits"
    /\ ShorttextDeterminesUnit(oMockdata["WeightUnits"])
    /\ Len(oMockdata["WeightUnits"]) = 2
    /\ conv.unit = oMockdata["WeightUnits"][2]["Unit"]
    /\ conv.unit # oMockdata["WeightUnits"][1]["Unit"]
    /\ conv.text # Undef
    /\ conv.back = conv.unit

(***************************************************************************)
(* What leaves Products alone: C9.                                         *)
(***************************************************************************)
\* C9: POST ProductDrafts with its finalize step, EditProduct and
\* CopyProduct leave Products as it was: same rows, same order, same values.
C9_OnlyActivateChangesProducts ==
    last.op \in {"Add", "Edit", "Copy"} => Products = PreProducts

\* A copy of a product that exists has been handled, and the draft has the
\* fields of that product.
C9_Witness ==
    /\ last.op = "Copy"
    /\ _getProduct(last.pre, LastId) # False
    /\ LastRow(ProductDrafts)["Name"] = _getProduct(last.pre, LastId)["Name"]
    /\ _getProduct(oMockdata, LastId)["RatingCount"] = Num(5)

ActivatedDraft == _getProductDraft(last.pre, LastId)

\* The activation handled last created a product (it did not update one).
ActivatedAsNew ==
    \/ Truthy(Get(ActivatedDraft, "IsNewProduct"))
    \/ Get(ActivatedDraft, "IsNewProduct") = Undef

\* The product that the activation handled last built from its draft.
ActivatedProduct == _buildProductFromDraft(last.pre, ActivatedDraft).oProduct

\* The rows of Products that the activation handled last created or updated.
ActivatedRows ==
    IF ActivatedAsNew
    THEN {Len(Products)}
    ELSE {j \in 1..Len(Products) : Products[j]["Id"] = ActivatedDraft["Id"]}

\* C11: an activation that completes answers with status 200 and, when it
\* created or updated a Products row, with the envelope {d: R}, R being such
\* a row: R has the Id of the activated draft and the fields built from it,
\* also when Products holds another row with that Id.
C11_ActivateAnswersWithItsProduct ==
    (last.op = "Activate" /\ ~last.threw) =>
        /\ last.status = 200
        /\ ActivatedRows # {} => \E j \in ActivatedRows :
              /\ last.body = JSONstringify(Products[j])
              /\ Products[j]["Id"] = ActivatedDraft["Id"]
              /\ \A f \in Fields \ {"__metadata"} :
                    ActivatedProduct[f] # Undef
                        => Products[j][f] = ActivatedProduct[f]

(***************************************************************************)
(* The product an activation builds: C12.                                  *)
(***************************************************************************)
AggregateFields == {"RatingCount", "AverageRating", "StockQuantity"}

\* The product fields agree with the category tables: the name is the Name of
\* every row of the table whose Id is the category id.
NamedAfter(oProduct, sNameField, aCategories, sCategoryId) ==
    \A i \in 1..Len(aCategories) :
        aCategories[i]["Id"] = sCategoryId
            => oProduct[sNameField] = aCategories[i]["Name"]

\* C12: activating a draft whose IsNewProduct is true or undefined appends a
\* product with RatingCount, AverageRating and StockQuantity 0, with the
\* ImageUrl of the draft or "" when it had none, and with the category names
\* of the SubCategories and MainCategories rows the draft's category ids
\* name; activating a draft with IsNewProduct = false sets none of the three
\* aggregate fields: the product built has them as the draft had them, and
\* the rows updated keep theirs when the draft had none.
C12_ActivateBuildsProduct ==
    (last.op = "Activate" /\ ~last.threw) =>
        LET D == ActivatedDraft
            R == LastRow(Products)
        IN  IF ActivatedAsNew
            THEN /\ AppendedOne(PreProducts, Products)
                 /\ \A f \in AggregateFields : R[f] = Num(0)
                 /\ R["ImageUrl"] =
                        IF Truthy(D["ImageUrl"]) THEN D["ImageUrl"] ELSE Str("")
                 /\ NamedAfter(R, "SubCategoryName",
                               oMockdata["SubCategories"], D["SubCategoryId"])
                 /\ NamedAfter(R, "MainCategoryName",
                               oMockdata["MainCategories"], D["MainCategoryId"])
            ELSE /\ Len(Products) = Len(PreProducts)
                 /\ \A f \in AggregateFields :
                        /\ ActivatedProduct[f] = D[f]
                        /\ \A j \in 1..Len(Products) :
                              D[f] = Undef => Products[j][f] = PreProducts[j][f]

\* A draft created with "Add", without image and category names, has been
\* activated into a new product.
C12_Witness ==
    /\ last.op = "Activate"
    /\ ~last.threw
    /\ ActivatedAsNew
    /\ ActivatedDraft["ImageUrl"] = Undef
    /\ ActivatedDraft["SubCategoryName"] = Undef
    /\ ActivatedDraft["SubCategoryId"] = Str("S1")
    /\ LastRow(Products)["SubCategoryName"] = Str("Snacks")
    /\ LastRow(Products)["MainCategoryName"] = Str("Food")
    /\ LastRow(Products)["ImageUrl"] = Str("")
    /\ LastRow(Products)["StockQuantity"] = Num(0)

(***************************************************************************)
(* Identifiers of products: C13.                                           *)
(***************************************************************************)
\* C13: the rows of Products have pairwise distinct Ids (Products starts
\* that way, and no activation appends a row whose Id is already there).
C13_OneProductPerId ==
    \A i, j \in 1..Len(Products) :
        Products[i]["Id"] = Products[j]["Id"] => i = j

(***************************************************************************)
(* The end of a draft: C14.                                                *)
(***************************************************************************)
\* C14: POST ProductDrafts with its finalize step, EditProduct and
\* CopyProduct remove no row of ProductDrafts (they add one at the end); an
\* activation for draft id d that completes leaves no row with Id = d; and
\* ActivateProduct for an id that no draft has (a second activation with no
\* draft created again in between) changes neither Products nor
\* ProductDrafts and writes no response.
C14_DraftsEndOnlyByActivation ==
    /\ last.op \in {"Add", "Edit", "Copy"}
          => AppendedOne(PreDrafts, ProductDrafts)
    /\ (last.op = "Activate" /\ ~last.threw)
          => LastId \notin IdsOf(ProductDrafts)
    /\ \A sDraftId \in UrlDraftIds :
          Str(decodeURIComponent(sDraftId)) \notin IdsOf(ProductDrafts) =>
              LET again ==
                    _mockActivateProduct_response(oMockdata, iLastId, sDraftId)
              IN  /\ again.data = oMockdata
                  /\ again.status = 0
                  /\ again.threw
    /\ (last.op = "Activate" /\ LastId \notin IdsOf(PreDrafts))
          => /\ oMockdata = last.pre
             /\ last.status = 0

\* ActivateProduct has been called again for a draft that an earlier
\* activation turned into a product: the product is there, the draft is not.
C14_Witness ==
    /\ last.op = "Activate"
    /\ last.threw
    /\ LastId \notin IdsOf(PreDrafts)
    /\ \E i \in 1..Len(Products) :
          /\ Products[i]["Id"] = LastId
          /\ Products[i]["CreatedBy"] = Str("Test User")

(***************************************************************************)
(* The id counter: C15.                                                    *)
(***************************************************************************)
\* A draft that CopyProduct created.
MadeByCopy(oDraft) ==
    /\ oDraft["CreatedBy"] = Str("Test User")
    /\ oDraft["IsNewProduct"] = Bool(TRUE)

\* C15: the id counter is 0 before the first request; CopyProduct advances it
\* by exactly 1 and gives its draft the Id "EPM-" followed by the new count
\* (so the n-th copy of a session creates "EPM-n"), an Id that no draft
\* created by an earlier copy has; POST ProductDrafts, EditProduct and
\* ActivateProduct leave the counter as it was.
C15_IdCounterCountsCopies ==
    /\ last.op = "none" => iLastId = 0
    /\ last.op = "Copy" =>
          /\ iLastId = last.preLastId + 1
          /\ LastRow(ProductDrafts)["Id"] = Str("EPM-" \o ToString(iLastId))
          /\ \A i \in 1..Len(PreDrafts) :
                MadeByCopy(PreDrafts[i])
                    => PreDrafts[i]["Id"] # LastRow(ProductDrafts)["Id"]
    /\ last.op \in {"Add", "Edit", "Activate"} => iLastId = last.preLastId

\* The second copy of a session has been handled while the draft of the
\* first is still open.
C15_Witness ==
    /\ last.op = "Copy"
    /\ last.preLastId = 1
    /\ iLastId = 2
    /\ LastRow(ProductDrafts)["Id"] = Str("EPM-2")
    /\ \E i \in 1..Len(PreDrafts) :
          /\ MadeByCopy(PreDrafts[i])
          /\ PreDrafts[i]["Id"] = Str("EPM-1")

(***************************************************************************)
(* How the defaulting of added drafts is wired: C16.                       *)
(***************************************************************************)
\* The paths of the rules getRequests returns.
RulePaths ==
    {getRequests(bAttachAfter)[i] : i \in DOMAIN getRequests(bAttachAfter)}

\* C16: with attachAfter the constructor has registered onAfterDraftCreated
\* after POST on ProductDrafts and getRequests returns the rules Activate,
\* Edit, Copy; without it no hook is registered and getRequests returns
\* Activate, Add (the rule for ProductDrafts), Edit, Copy; so exactly one
\* of hook and rule exists, and a draft posted without ProductId is stored
\* as the posted entity with the defaults merged into it.
C16_OneDefaultingMechanism ==
    /\ IF bAttachAfter
       THEN /\ aAfterHooks =
                <<[method |-> "POST", handler |-> "onAfterDraftCreated",
                   entitySet |-> "ProductDrafts"]>>
            /\ getRequests(bAttachAfter) =
                <<"ActivateProduct", "EditProduct", "CopyProduct">>
       ELSE /\ aAfterHooks = <<>>
            /\ getRequests(bAttachAfter) =
                <<"ActivateProduct", "ProductDrafts", "EditProduct",
                  "CopyProduct">>
    /\ (aAfterHooks # <<>>) # ("ProductDrafts" \in RulePaths)
    /\ (last.op = "Add" /\ ~Truthy(last.oEntity["ProductId"]))
          => LastRow(ProductDrafts) =
                jQueryExtend(last.oEntity, _oNewDraftDefaultValues)

\* On a mock server without attachAfter a draft posted without ProductId
\* has got the defaults from the rule.
C16_Witness ==
    /\ ~bAttachAfter
    /\ aAfterHooks = <<>>
    /\ last.op = "Add"
    /\ last.oEntity["ProductId"] = Str("")
    /\ last.oEntity["IsNewProduct"] = Undef
    /\ LastRow(ProductDrafts)["IsNewProduct"] = Bool(TRUE)
    /\ LastRow(ProductDrafts)["WeightUnit"] = Str("KGM")

(***************************************************************************)
(* Addressing metadata: C17.                                               *)
(***************************************************************************)
\* The entity carries the metadata of a row of the entity set: id and uri
\* are root URI + entity set + "('" + Id + "')", type names the entity type.
CarriesMetadata(oEntity, sEntityTypeName, sEntitySetName) ==
    LET sUri == getRootUri \o sEntitySetName \o "('"
                    \o ToStr(Get(oEntity, "Id")) \o "')"
    IN  Get(oEntity, "__metadata") =
            Obj([id |-> sUri,
                 type |-> "EPM_REF_APPS_PROD_MAN_SRV." \o sEntityTypeName,
                 uri |-> sUri])

\* The rows that the request handled last appended or updated carry their
\* metadata.
WrittenRowsCarryMetadata ==
    /\ last.op \in {"Edit", "Copy"}
          => CarriesMetadata(LastRow(ProductDrafts), "ProductDraft",
                             "ProductDrafts")
    /\ (last.op = "Activate" /\ ~last.threw)
          => \A j \in ActivatedRows :
                CarriesMetadata(Products[j], "Product", "Products")

\* The response of the request handled last carries the metadata of a draft
\* (Edit, Copy) or of a product (Activate).
ResponseCarriesMetadata ==
    IF last.op = "Activate"
    THEN CarriesMetadata(last.body.d, "Product", "Products")
    ELSE CarriesMetadata(last.body.d, "ProductDraft", "ProductDrafts")

RowsOfOthers(aEntities, sId) ==
    SeqFilter(aEntities,
        {aEntities[i] : i \in {j \in 1..Len(aEntities) :
                                  Get(aEntities[j], "Id") # sId}})

\* C18: ActivateProduct for draft id d leaves the rows of ProductDrafts and
\* of Products whose Id is not d with their values and in their order, and
\* the id counter as it was.
C18_ActivateTouchesOnlyItsId ==
    last.op = "Activate" =>
        /\ RowsOfOthers(ProductDrafts, LastId) = RowsOfOthers(PreDrafts, LastId)
        /\ RowsOfOthers(Products, LastId) = RowsOfOthers(PreProducts, LastId)
        /\ iLastId = last.preLastId

\* An activation has updated one of two products and removed one of two
\* drafts: the other product and the other draft are still there.
C18_Witness ==
    /\ last.op = "Activate"
    /\ ~last.threw
    /\ ~ActivatedAsNew
    /\ Len(PreDrafts) = 2
    /\ Len(ProductDrafts) = 1
    /\ ProductDrafts[1]["Id"] # LastId
    /\ Len(Products) = 2
    /\ Products # PreProducts
    /\ \E j \in 1..2 : Products[j]["Id"] # LastId

====
